---------------------------- MODULE Spec2Model ----------------------------
(***************************************************************************)
(* Model of tasks/pipeline.py: the two invoke tasks `trigger` and `follow` *)
(* and the calls they make into their collaborators                        *)
(* (trigger_agent_pipeline, wait_for_pipeline, Gitlab().pipelines_for_ref, *)
(* ctx.run, print).  One run of the command line is one behaviour: a task  *)
(* is invoked with keyword arguments, executes statement by statement and  *)
(* either returns or raises.  Every collaborator call is split into the    *)
(* call and its completion (a return or a raised exception), and is        *)
(* recorded in `trace`.                                                    *)
(***************************************************************************)
EXTENDS Integers, Sequences, FiniteSets, TLC

VARIABLES
    pc,       \* position of the running task (source line), "idle" or "done"
    task,     \* "none", "trigger" or "follow"
    kwargs,   \* the keyword arguments the task was invoked with
    frame,    \* the task's local variables
    trace,    \* calls into collaborators, with their returns and raises
    stdout,   \* lines written by print
    outcome   \* how the task ended: running, returned or raised (with exc)

vars == <<pc, task, kwargs, frame, trace, stdout, outcome>>

---------------------------------------------------------------------------
(* Python values *)

None == [tag |-> "None"]
Omitted == [tag |-> "omitted"]
Str(s) == [tag |-> "str", s |-> s]
Num(n) == [tag |-> "int", n |-> n]
Bool(b) == [tag |-> "bool", b |-> b]

\* Python truth value testing, as used by `if id:` / `elif ref:` / `elif here:`
Truthy(v) ==
    CASE v.tag = "None" -> FALSE
      [] v.tag = "str"  -> v.s # ""
      [] v.tag = "int"  -> v.n # 0
      [] v.tag = "bool" -> v.b

\* characters removed by str.strip() with no argument
Whitespace == {" ", "\t", "\n", "\r"}

RECURSIVE LStrip(_)
LStrip(s) ==
    IF s # "" /\ Head(s) \in Whitespace THEN LStrip(Tail(s)) ELSE s

RECURSIVE RStrip(_)
RStrip(s) ==
    IF s # "" /\ SubSeq(s, Len(s), Len(s)) \in Whitespace
    THEN RStrip(SubSeq(s, 1, Len(s) - 1))
    ELSE s

StripLeftOnly(s) == LStrip(s)

\* str.strip()
Strip(s) == RStrip(LStrip(s))

---------------------------------------------------------------------------
(* Bounds and input sets *)

MaxPipelines == 2

PipelineIds == {41, 42}

\* a pipeline record as returned by the client: a dict with an 'id' key
PipelineRecord(n) == [id |-> Num(n)]

RECURSIVE SeqsUpTo(_, _)
SeqsUpTo(S, n) ==
    IF n = 0 THEN {<<>>}
    ELSE LET shorter == SeqsUpTo(S, n - 1)
         IN  shorter \cup {Append(q, x) : q \in {r \in shorter : Len(r) = n - 1}, x \in S}

PipelineLists == SeqsUpTo({PipelineRecord(n) : n \in PipelineIds}, MaxPipelines)

\* exceptions the CI client can raise, and the one ctx.run raises
ClientFailures == {"ConnectionError", "HTTPError"}
RunFailures == {"UnexpectedExit"}

\* what `git rev-parse --abbrev-ref HEAD` can write to its standard output
GitOutputs == {"main\n", " feature/x \n", "\n"}

TriggerInputs ==
    [ref                   : {Omitted, Str("6.16.x")},
     release_version_6     : {Omitted, Str("6.16.0")},
     release_version_7     : {Omitted, Str("7.16.0")},
     repo_branch           : {Omitted, Str("beta")},
     windows_update_latest : {Omitted, Bool(FALSE)}]

FollowInputs ==
    [id   : {Omitted, None, Str(""), Str("123")},
     ref  : {Omitted, Str(""), Str("foo")},
     here : {Omitted, Bool(FALSE), Bool(TRUE)}]

---------------------------------------------------------------------------
(* The tasks' signatures and pure parts *)

\* def trigger(ctx, ref="master", release_version_6="nightly", ...)
TriggerDefaults ==
    [ref                   |-> Str("master"),
     release_version_6     |-> Str("nightly"),
     release_version_7     |-> Str("nightly-a7"),
     repo_branch           |-> Str("nightly"),
     windows_update_latest |-> Bool(TRUE)]

FollowDefaultsHere ==
    [id |-> None, ref |-> None, here |-> Bool(TRUE)]

\* def follow(ctx, id=None, ref=None, here=False)
FollowDefaults ==
    [id |-> None, ref |-> None, here |-> Bool(FALSE)]

\* binding of keyword arguments to parameters: an omitted one takes its default
Bind(kw, defaults) ==
    [p \in DOMAIN defaults |-> IF kw[p] = Omitted THEN defaults[p] ELSE kw[p]]

TriggerArgsSwapped(f) ==
    <<f.ref, f.release_version_7, f.release_version_6, f.repo_branch, f.windows_update_latest>>

\* the argument list of the trigger_agent_pipeline call
TriggerArgs(f) ==
    <<f.ref, f.release_version_6, f.release_version_7, f.repo_branch, f.windows_update_latest>>

FollowBranchRefFirst(id, ref, here) ==
    IF Truthy(ref) THEN "ref"
    ELSE IF Truthy(id) THEN "id"
    ELSE IF Truthy(here) THEN "here"
    ELSE "none"

FollowBranchNotNone(id, ref, here) ==
    IF id # None THEN "id"
    ELSE IF ref # None THEN "ref"
    ELSE IF Truthy(here) THEN "here"
    ELSE "none"

\* the if / elif / elif chain of follow
FollowBranch(id, ref, here) ==
    IF Truthy(id) THEN "id"
    ELSE IF Truthy(ref) THEN "ref"
    ELSE IF Truthy(here) THEN "here"
    ELSE "none"

Project == "DataDog/datadog-agent"

GitCommand == "git rev-parse --abbrev-ref HEAD"

LastId(pipelines) == pipelines[Len(pipelines)].id

\* pipelines[0]['id']
FirstId(pipelines) == pipelines[1].id

NoPipelinesMessageRaw(ref) == "No pipelines found for {ref}"

\* "No pipelines found for {ref}".format(ref=ref)
NoPipelinesMessage(ref) == "No pipelines found for " \o ref.s

---------------------------------------------------------------------------
(* Events of the trace and outcomes *)

CallEv(fn, args) == [ev |-> "call", fn |-> fn, args |-> args]
ReturnEv(fn, value) == [ev |-> "return", fn |-> fn, value |-> value]
RaiseEv(fn, exc) == [ev |-> "raise", fn |-> fn, exc |-> exc]

Running == [status |-> "running", exc |-> "none"]
Returned == [status |-> "returned", exc |-> "none"]

RaisedWrapped(e) == [status |-> "raised", exc |-> "Exit"]

\* an exception leaving the task: neither handler has a try block
Raised(e) == [status |-> "raised", exc |-> e]

---------------------------------------------------------------------------
Init ==
    /\ pc = "idle"
    /\ task = "none"
    /\ kwargs = None
    /\ frame = None
    /\ trace = <<>>
    /\ stdout = <<>>
    /\ outcome = Running

(* trigger *)

InvokeTrigger ==
    /\ pc = "idle"
    /\ \E kw \in TriggerInputs :
          /\ kwargs' = kw
          /\ frame' = Bind(kw, TriggerDefaults) @@ [pipeline_id |-> None]
    /\ task' = "trigger"
    /\ pc' = "trigger_19"
    /\ UNCHANGED <<trace, stdout, outcome>>

\* line 19: trigger_agent_pipeline(ref, release_version_6, ...) is entered
TriggerAgentPipelineCall ==
    /\ pc = "trigger_19"
    /\ trace' = Append(trace, CallEv("trigger_agent_pipeline", TriggerArgs(frame)))
    /\ pc' = "trigger_19_in_call"
    /\ UNCHANGED <<task, kwargs, frame, stdout, outcome>>

\* line 19: pipeline_id = <the returned id>
TriggerAgentPipelineReturns ==
    /\ pc = "trigger_19_in_call"
    /\ \E n \in PipelineIds :
          /\ trace' = Append(trace, ReturnEv("trigger_agent_pipeline", Num(n)))
          /\ frame' = [frame EXCEPT !.pipeline_id = Num(n)]
    /\ pc' = "trigger_20"
    /\ UNCHANGED <<task, kwargs, stdout, outcome>>

\* line 19: the call raises; the exception leaves trigger
TriggerAgentPipelineRaises ==
    /\ pc = "trigger_19_in_call"
    /\ \E e \in ClientFailures :
          /\ trace' = Append(trace, RaiseEv("trigger_agent_pipeline", e))
          /\ outcome' = Raised(e)
    /\ pc' = "done"
    /\ UNCHANGED <<task, kwargs, frame, stdout>>

TriggerWaitNoBlock ==
    /\ pc = "trigger_20"
    /\ trace' = Append(trace, CallEv("wait_for_pipeline", <<frame.pipeline_id>>))
    /\ pc' = "done"
    /\ outcome' = Returned
    /\ UNCHANGED <<task, kwargs, frame, stdout>>

\* line 20: wait_for_pipeline(pipeline_id) is entered
TriggerWait ==
    /\ pc = "trigger_20"
    /\ trace' = Append(trace, CallEv("wait_for_pipeline", <<frame.pipeline_id>>))
    /\ pc' = "in_wait_for_pipeline"
    /\ UNCHANGED <<task, kwargs, frame, stdout, outcome>>

(* the end of every wait_for_pipeline call: in both tasks the call is the   *)
(* last statement of its branch, so its return ends the task                *)

WaitForPipelineReturns ==
    /\ pc = "in_wait_for_pipeline"
    /\ trace' = Append(trace, ReturnEv("wait_for_pipeline", None))
    /\ pc' = "done"
    /\ outcome' = Returned
    /\ UNCHANGED <<task, kwargs, frame, stdout>>

WaitForPipelineRaises ==
    /\ pc = "in_wait_for_pipeline"
    /\ \E e \in ClientFailures :
          /\ trace' = Append(trace, RaiseEv("wait_for_pipeline", e))
          /\ outcome' = Raised(e)
    /\ pc' = "done"
    /\ UNCHANGED <<task, kwargs, frame, stdout>>

(* follow *)

InvokeFollow ==
    /\ pc = "idle"
    /\ \E kw \in FollowInputs :
          /\ kwargs' = kw
          /\ frame' = Bind(kw, FollowDefaults) @@ [pipelines |-> None, subscript |-> None]
    /\ task' = "follow"
    /\ pc' = "follow_25"
    /\ UNCHANGED <<trace, stdout, outcome>>

\* lines 25, 27, 29: the tests of the if / elif / elif chain; when none
\* holds the function body ends and follow returns None
FollowSelect ==
    /\ pc = "follow_25"
    /\ LET b == FollowBranch(frame.id, frame.ref, frame.here)
       IN  /\ pc' = CASE b = "id"   -> "follow_26"
                      [] b = "ref"  -> "follow_28"
                      [] b = "here" -> "follow_30"
                      [] b = "none" -> "done"
           /\ outcome' = IF b = "none" THEN Returned ELSE outcome
    /\ UNCHANGED <<task, kwargs, frame, trace, stdout>>

\* line 26: wait_for_pipeline(id) is entered
FollowIdWait ==
    /\ pc = "follow_26"
    /\ trace' = Append(trace, CallEv("wait_for_pipeline", <<frame.id>>))
    /\ pc' = "in_wait_for_pipeline"
    /\ UNCHANGED <<task, kwargs, frame, stdout, outcome>>

\* line 28: Gitlab().pipelines_for_ref("DataDog/datadog-agent", ref) is entered
FollowRefLookupCall ==
    /\ pc = "follow_28"
    /\ trace' = Append(trace, CallEv("pipelines_for_ref", <<Str(Project), frame.ref>>))
    /\ pc' = "follow_28_in_lookup"
    /\ UNCHANGED <<task, kwargs, frame, stdout, outcome>>

\* line 28: the lookup returns and [0]['id'] is applied to its result;
\* on an empty list the subscript raises IndexError, which leaves follow
FollowRefLookupReturns ==
    /\ pc = "follow_28_in_lookup"
    /\ \E ps \in PipelineLists :
          /\ trace' = Append(trace, ReturnEv("pipelines_for_ref", ps))
          /\ IF Len(ps) = 0
             THEN /\ outcome' = Raised("IndexError")
                  /\ pc' = "done"
                  /\ frame' = frame
             ELSE /\ frame' = [frame EXCEPT !.subscript = FirstId(ps)]
                  /\ pc' = "follow_28_wait"
                  /\ outcome' = outcome
    /\ UNCHANGED <<task, kwargs, stdout>>

\* lines 28 and 31: the lookup raises; the exception leaves follow
FollowLookupRaises ==
    /\ pc \in {"follow_28_in_lookup", "follow_31_in_lookup"}
    /\ \E e \in ClientFailures :
          /\ trace' = Append(trace, RaiseEv("pipelines_for_ref", e))
          /\ outcome' = Raised(e)
    /\ pc' = "done"
    /\ UNCHANGED <<task, kwargs, frame, stdout>>

\* line 28: wait_for_pipeline(<the first record's id>) is entered
FollowRefWait ==
    /\ pc = "follow_28_wait"
    /\ trace' = Append(trace, CallEv("wait_for_pipeline", <<frame.subscript>>))
    /\ pc' = "in_wait_for_pipeline"
    /\ UNCHANGED <<task, kwargs, frame, stdout, outcome>>

\* line 30: ctx.run("git rev-parse --abbrev-ref HEAD", hide=True) is entered
FollowHereRunCall ==
    /\ pc = "follow_30"
    /\ trace' = Append(trace, CallEv("ctx.run", <<Str(GitCommand), Bool(TRUE)>>))
    /\ pc' = "follow_30_in_run"
    /\ UNCHANGED <<task, kwargs, frame, stdout, outcome>>

\* line 30: ref = <result>.stdout.strip()
FollowHereRunReturns ==
    /\ pc = "follow_30_in_run"
    /\ \E out \in GitOutputs :
          /\ trace' = Append(trace, ReturnEv("ctx.run", [stdout |-> Str(out)]))
          /\ frame' = [frame EXCEPT !.ref = Str(Strip(out))]
    /\ pc' = "follow_31"
    /\ UNCHANGED <<task, kwargs, stdout, outcome>>

\* line 30: the command fails; the exception leaves follow
FollowHereRunRaises ==
    /\ pc = "follow_30_in_run"
    /\ \E e \in RunFailures :
          /\ trace' = Append(trace, RaiseEv("ctx.run", e))
          /\ outcome' = Raised(e)
    /\ pc' = "done"
    /\ UNCHANGED <<task, kwargs, frame, stdout>>

\* line 31: Gitlab().pipelines_for_ref("DataDog/datadog-agent", ref) is entered
FollowHereLookupCall ==
    /\ pc = "follow_31"
    /\ trace' = Append(trace, CallEv("pipelines_for_ref", <<Str(Project), frame.ref>>))
    /\ pc' = "follow_31_in_lookup"
    /\ UNCHANGED <<task, kwargs, frame, stdout, outcome>>

\* line 31: pipelines = <the returned list>
FollowHereLookupReturns ==
    /\ pc = "follow_31_in_lookup"
    /\ \E ps \in PipelineLists :
          /\ trace' = Append(trace, ReturnEv("pipelines_for_ref", ps))
          /\ frame' = [frame EXCEPT !.pipelines = ps]
    /\ pc' = "follow_32"
    /\ UNCHANGED <<task, kwargs, stdout, outcome>>

\* line 32: if len(pipelines) > 0
FollowHereTest ==
    /\ pc = "follow_32"
    /\ pc' = IF Len(frame.pipelines) > 0 THEN "follow_33" ELSE "follow_35"
    /\ UNCHANGED <<task, kwargs, frame, trace, stdout, outcome>>

\* line 33: wait_for_pipeline(pipelines[0]['id']) is entered
FollowHereWait ==
    /\ pc = "follow_33"
    /\ trace' = Append(trace, CallEv("wait_for_pipeline", <<FirstId(frame.pipelines)>>))
    /\ pc' = "in_wait_for_pipeline"
    /\ UNCHANGED <<task, kwargs, frame, stdout, outcome>>

\* line 35: print("No pipelines found for {ref}".format(ref=ref)); follow returns
FollowHerePrint ==
    /\ pc = "follow_35"
    /\ stdout' = Append(stdout, NoPipelinesMessage(frame.ref))
    /\ pc' = "done"
    /\ outcome' = Returned
    /\ UNCHANGED <<task, kwargs, frame, trace>>

Next ==
    \/ InvokeTrigger
    \/ TriggerAgentPipelineCall
    \/ TriggerAgentPipelineReturns
    \/ TriggerAgentPipelineRaises
    \/ TriggerWait
    \/ WaitForPipelineReturns
    \/ WaitForPipelineRaises
    \/ InvokeFollow
    \/ FollowSelect
    \/ FollowIdWait
    \/ FollowRefLookupCall
    \/ FollowRefLookupReturns
    \/ FollowLookupRaises
    \/ FollowRefWait
    \/ FollowHereRunCall
    \/ FollowHereRunReturns
    \/ FollowHereRunRaises
    \/ FollowHereLookupCall
    \/ FollowHereLookupReturns
    \/ FollowHereTest
    \/ FollowHereWait
    \/ FollowHerePrint

Spec == Init /\ [][Next]_vars

---------------------------------------------------------------------------
(* Vocabulary of the properties *)

CallIdx(fn) == {i \in 1..Len(trace) : trace[i].ev = "call" /\ trace[i].fn = fn}
NumCalls(fn) == Cardinality(CallIdx(fn))

\* the value a parameter has when the caller may have omitted it
Given(p, default) == IF kwargs[p] = Omitted THEN default ELSE kwargs[p]

HasId == kwargs.id.tag = "str" /\ kwargs.id.s # ""
HasRef == kwargs.ref.tag = "str" /\ kwargs.ref.s # ""
HereTrue == kwargs.here = Bool(TRUE)

CharAt(s, k) == SubSeq(s, k, k)

\* r is out without its leading and trailing whitespace
IsStripOf(r, out) ==
    /\ r # "" => (CharAt(r, 1) \notin Whitespace /\ CharAt(r, Len(r)) \notin Whitespace)
    /\ \E i \in 1..(Len(out) + 1) : \E j \in (i - 1)..Len(out) :
          /\ SubSeq(out, i, j) = r
          /\ \A k \in 1..(i - 1) : CharAt(out, k) \in Whitespace
          /\ \A k \in (j + 1)..Len(out) : CharAt(out, k) \in Whitespace

\* the event at position i of the trace is the return of fn
ReturnedAt(i, fn) == Len(trace) >= i /\ trace[i].ev = "return" /\ trace[i].fn = fn

---------------------------------------------------------------------------
\* C1: every invocation of trigger calls trigger_agent_pipeline exactly once
\* with (ref, release_version_6, release_version_7, repo_branch,
\* windows_update_latest), every omitted argument taking its default, so that
\* a call without arguments passes ("master", "nightly", "nightly-a7",
\* "nightly", True); once that call has returned, wait_for_pipeline is called
\* exactly once, with the id that was returned.
C1_TriggerStartsThenWaits ==
    task = "trigger" =>
        LET expected == <<Given("ref", Str("master")),
                          Given("release_version_6", Str("nightly")),
                          Given("release_version_7", Str("nightly-a7")),
                          Given("repo_branch", Str("nightly")),
                          Given("windows_update_latest", Bool(TRUE))>>
        IN  /\ NumCalls("trigger_agent_pipeline") <= 1
            /\ pc # "trigger_19" =>
                  /\ NumCalls("trigger_agent_pipeline") = 1
                  /\ trace[1] = CallEv("trigger_agent_pipeline", expected)
                  /\ (\A p \in DOMAIN kwargs : kwargs[p] = Omitted) =>
                        trace[1].args = <<Str("master"), Str("nightly"), Str("nightly-a7"),
                                          Str("nightly"), Bool(TRUE)>>
            /\ NumCalls("wait_for_pipeline") <= 1
            /\ \A i \in CallIdx("wait_for_pipeline") :
                  /\ i = 3
                  /\ ReturnedAt(2, "trigger_agent_pipeline")
                  /\ trace[i].args = <<trace[2].value>>
            /\ (pc = "done" /\ ReturnedAt(2, "trigger_agent_pipeline")) =>
                  NumCalls("wait_for_pipeline") = 1

C1_Witness ==
    /\ task = "trigger"
    /\ pc = "done"
    /\ outcome.status = "returned"
    /\ \A p \in DOMAIN kwargs : kwargs[p] = Omitted
    /\ trace[3] = CallEv("wait_for_pipeline", <<Num(42)>>)

\* C2: follow called with an id (a non-empty one) calls wait_for_pipeline
\* exactly once with that id, and makes no pipelines_for_ref call and no
\* version-control query, whatever ref and here are.
C2_FollowIdWaitsWithoutLookup ==
    (task = "follow" /\ HasId) =>
        /\ NumCalls("pipelines_for_ref") = 0
        /\ NumCalls("ctx.run") = 0
        /\ NumCalls("wait_for_pipeline") <= 1
        /\ \A i \in CallIdx("wait_for_pipeline") : trace[i].args = <<kwargs.id>>
        /\ pc = "done" => NumCalls("wait_for_pipeline") = 1

C2_Witness ==
    /\ task = "follow"
    /\ kwargs = [id |-> Str("123"), ref |-> Str("foo"), here |-> Bool(TRUE)]
    /\ pc = "done"
    /\ outcome.status = "returned"
    /\ trace[1] = CallEv("wait_for_pipeline", <<Str("123")>>)

\* C3: follow called with no id and a ref r, when the lookup returns a
\* non-empty sequence, calls pipelines_for_ref exactly once with
\* ("DataDog/datadog-agent", r) and then wait_for_pipeline exactly once with
\* the id of the first record, never with the id of a later one.
C3_FollowRefWaitsOnFirst ==
    (task = "follow" /\ ~HasId /\ HasRef) =>
        /\ NumCalls("pipelines_for_ref") <= 1
        /\ pc \notin {"follow_25", "follow_28"} =>
              trace[1] = CallEv("pipelines_for_ref", <<Str("DataDog/datadog-agent"), kwargs.ref>>)
        /\ (ReturnedAt(2, "pipelines_for_ref") /\ trace[2].value # <<>>) =>
              /\ NumCalls("wait_for_pipeline") <= 1
              /\ \A i \in CallIdx("wait_for_pipeline") :
                    i = 3 /\ trace[i].args = <<trace[2].value[1].id>>
              /\ pc = "done" => NumCalls("wait_for_pipeline") = 1

C3_Witness ==
    /\ task = "follow"
    /\ ~HasId /\ kwargs.ref = Str("foo")
    /\ pc = "done"
    /\ outcome.status = "returned"
    /\ ReturnedAt(2, "pipelines_for_ref")
    /\ trace[2].value = <<PipelineRecord(41), PipelineRecord(42)>>
    /\ trace[3] = CallEv("wait_for_pipeline", <<Num(41)>>)

\* the here branch has run the version-control query and looked the branch
\* up, and the lookup returned ps
HereLookupReturned(ps) ==
    /\ task = "follow" /\ ~HasId /\ ~HasRef /\ HereTrue
    /\ ReturnedAt(2, "ctx.run")
    /\ ReturnedAt(4, "pipelines_for_ref")
    /\ trace[4].value = ps

\* C4: follow called with here=True and neither id nor ref, when the lookup
\* for the current branch returns no pipeline, prints "No pipelines found for
\* <ref>" with the branch name as <ref>, makes no wait_for_pipeline call and
\* returns normally.
C4_FollowHereNoPipelinesPrints ==
    HereLookupReturned(<<>>) =>
        /\ NumCalls("wait_for_pipeline") = 0
        /\ outcome.status # "raised"
        /\ pc = "done" =>
              /\ outcome = Returned
              /\ IsStripOf(trace[3].args[2].s, trace[2].value.stdout.s)
              /\ stdout = <<"No pipelines found for " \o trace[3].args[2].s>>

C4_Witness ==
    /\ HereLookupReturned(<<>>)
    /\ pc = "done"
    /\ stdout = <<"No pipelines found for feature/x">>

\* C5: follow called with an explicit ref and no id, when the lookup returns
\* an empty sequence, prints a message instead of raising: it returns
\* normally and makes no wait_for_pipeline call.
C5_FollowRefNoPipelinesHandled ==
    (/\ task = "follow" /\ ~HasId /\ HasRef
     /\ ReturnedAt(2, "pipelines_for_ref") /\ trace[2].value = <<>>
     /\ pc = "done") =>
        /\ outcome = Returned
        /\ stdout # <<>>
        /\ NumCalls("wait_for_pipeline") = 0

\* C6: follow called with here=True and neither id nor ref makes exactly one
\* version-control query, "git rev-parse --abbrev-ref HEAD", strips its
\* output, calls pipelines_for_ref exactly once with
\* ("DataDog/datadog-agent", the stripped output) and, when the result is not
\* empty, calls wait_for_pipeline exactly once with the first record's id and
\* prints nothing.
C6_FollowHereQueriesBranch ==
    (task = "follow" /\ ~HasId /\ ~HasRef /\ HereTrue) =>
        /\ NumCalls("ctx.run") <= 1
        /\ NumCalls("pipelines_for_ref") <= 1
        /\ pc \notin {"follow_25", "follow_30"} =>
              /\ NumCalls("ctx.run") = 1
              /\ trace[1].ev = "call" /\ trace[1].fn = "ctx.run"
              /\ trace[1].args[1] = Str("git rev-parse --abbrev-ref HEAD")
        /\ \A i \in CallIdx("pipelines_for_ref") :
              /\ i = 3
              /\ ReturnedAt(2, "ctx.run")
              /\ trace[i].args[1] = Str("DataDog/datadog-agent")
              /\ Len(trace[i].args) = 2
              /\ trace[i].args[2].tag = "str"
              /\ IsStripOf(trace[i].args[2].s, trace[2].value.stdout.s)
        /\ (pc = "done" /\ ReturnedAt(2, "ctx.run")) => NumCalls("pipelines_for_ref") = 1
        /\ \A ps \in PipelineLists :
              (ps # <<>> /\ HereLookupReturned(ps)) =>
                  /\ stdout = <<>>
                  /\ NumCalls("wait_for_pipeline") <= 1
                  /\ \A i \in CallIdx("wait_for_pipeline") :
                        i = 5 /\ trace[i].args = <<ps[1].id>>
                  /\ pc = "done" => NumCalls("wait_for_pipeline") = 1

C6_Witness ==
    /\ pc = "done"
    /\ outcome.status = "returned"
    /\ HereLookupReturned(<<PipelineRecord(42), PipelineRecord(41)>>)
    /\ trace[2].value.stdout = Str(" feature/x \n")
    /\ trace[3].args = <<Str("DataDog/datadog-agent"), Str("feature/x")>>
    /\ trace[5] = CallEv("wait_for_pipeline", <<Num(42)>>)

\* C7: a failure of an external call propagates unchanged out of the handler and ends
\* it: after a failure of trigger_agent_pipeline, of pipelines_for_ref or of
\* the version-control query there is no wait_for_pipeline call and nothing
\* is printed; a failure of wait_for_pipeline is neither caught nor retried.
C7_FailuresPropagate ==
    \A i \in 1..Len(trace) :
        trace[i].ev = "raise" =>
            /\ i = Len(trace)
            /\ pc = "done"
            /\ outcome = [status |-> "raised", exc |-> trace[i].exc]
            /\ trace[i].fn \in {"trigger_agent_pipeline", "pipelines_for_ref", "ctx.run"} =>
                  (NumCalls("wait_for_pipeline") = 0 /\ stdout = <<>>)
            /\ trace[i].fn = "wait_for_pipeline" => NumCalls("wait_for_pipeline") = 1

C7_Witness ==
    /\ task = "follow"
    /\ pc = "done"
    /\ Len(trace) = 4
    /\ trace[4] = RaiseEv("pipelines_for_ref", "HTTPError")
    /\ outcome.exc = "HTTPError"

\* C8: a run of trigger or follow makes at most two calls into the CI client
\* (at most one start-pipeline or lookup call, at most one wait_for_pipeline
\* call), one after the other (no call begins before the previous one has
\* returned), and the handler does not return before its wait call returned.
C8_AtMostTwoSequentialCalls ==
    /\ NumCalls("trigger_agent_pipeline") + NumCalls("pipelines_for_ref") <= 1
    /\ NumCalls("wait_for_pipeline") <= 1
    /\ \A i \in 2..Len(trace) : trace[i].ev = "call" => trace[i - 1].ev = "return"
    /\ outcome.status = "returned" =>
          \A i \in CallIdx("wait_for_pipeline") : ReturnedAt(i + 1, "wait_for_pipeline")
    /\ pc = "done" <=> outcome.status # "running"

C8_Witness ==
    /\ task = "trigger"
    /\ outcome.status = "returned"
    /\ NumCalls("trigger_agent_pipeline") = 1
    /\ NumCalls("wait_for_pipeline") = 1
    /\ ReturnedAt(4, "wait_for_pipeline")

\* C9: follow takes one branch by the precedence id > ref > here, testing
\* truthiness: a truthy id makes ref and here ignored; with a falsy id a
\* truthy ref is looked up and here is ignored; the version-control query is
\* run only when id and ref are falsy and here is true.  No run makes both an
\* explicit-ref lookup and a version-control query, nor two wait calls.
C9_FollowPrecedence ==
    task = "follow" =>
        /\ HasId => (NumCalls("pipelines_for_ref") = 0 /\ NumCalls("ctx.run") = 0)
        /\ (~HasId /\ HasRef) =>
              /\ NumCalls("ctx.run") = 0
              /\ \A i \in CallIdx("pipelines_for_ref") : trace[i].args[2] = kwargs.ref
              /\ pc = "done" => NumCalls("pipelines_for_ref") = 1
        /\ NumCalls("ctx.run") > 0 => (~HasId /\ ~HasRef /\ HereTrue)
        /\ (~HasId /\ ~HasRef /\ HereTrue /\ pc = "done") => NumCalls("ctx.run") = 1
        /\ ~(NumCalls("ctx.run") > 0 /\ 1 \in CallIdx("pipelines_for_ref"))
        /\ NumCalls("wait_for_pipeline") <= 1

C9_Witness ==
    /\ task = "follow"
    /\ kwargs = [id |-> Str(""), ref |-> Str("foo"), here |-> Bool(TRUE)]
    /\ pc = "done"
    /\ NumCalls("pipelines_for_ref") = 1
    /\ NumCalls("wait_for_pipeline") = 1

\* C10: follow called with no id, no ref and here false (an empty string
\* counting as no id or no ref) makes no external call, prints nothing and
\* returns normally.
C10_FollowNothingToDo ==
    (task = "follow" /\ ~HasId /\ ~HasRef /\ ~HereTrue) =>
        /\ trace = <<>>
        /\ stdout = <<>>
        /\ pc \in {"follow_25", "done"}
        /\ pc = "done" => outcome = Returned

C10_Witness ==
    /\ task = "follow"
    /\ kwargs = [id |-> Str(""), ref |-> Str(""), here |-> Omitted]
    /\ pc = "done"
    /\ outcome = Returned
    /\ trace = <<>>

=============================================================================
